---- MODULE Spec2Model ----
(***************************************************************************)
(* SolaX HTTP integration: the Transport (_http_post of the coordinator    *)
(* and of the plugin factory), the reads built on it, the coordinator's    *)
(* refresh and write_register, and the G4 Boost/Mini plugin they drive.    *)
(***************************************************************************)
EXTENDS Integers, Sequences, FiniteSets, TLC

(***************************************************************************)
(* Bounds of the model.                                                    *)
(***************************************************************************)
MaxRetry == 4        \* largest retry budget a free-standing POST is given
MaxElapsed == 12     \* longest time (in units of API_TIMEOUT) a fetch may wait
MaxRuns == 3         \* most fetches counted within one cooldown window
MaxSerial == 6       \* longest serial number given to detection

(***************************************************************************)
(* Program constants.                                                      *)
(***************************************************************************)
DefaultRetry == 3    \* retry=3, the default of both _http_post
DeadlineFactor == 10 \* asyncio.timeout(10 * API_TIMEOUT)

\* Python's None, and a value every nullable text field can be compared with.
None == [kind |-> "None"]

(***************************************************************************)
(* Strings the code inspects are sequences of characters, so that          *)
(* `"failed" in text` and serial prefixes are computed, not assumed.       *)
(***************************************************************************)
FAILED == <<"f", "a", "i", "l", "e", "d">>

IsSubstr(pat, s) ==
    \E i \in 1..(Len(s) - Len(pat) + 1) : SubSeq(s, i, i + Len(pat) - 1) = pat

(***************************************************************************)
(* Transport.  One _http_post call is a chain of attempts: the recursive   *)
(* call in an except clause is the next attempt with retry - 1.            *)
(***************************************************************************)
Impls == {"coordinator", "factory"}
TransportErrors == {"timeout", "disconnect", "oserror", "clienterror"}

IdleCall == [state |-> "idle", impl |-> "coordinator", req |-> "none",
             budget |-> 0, retry |-> 0, attempts |-> 0, result |-> None]

\* A fresh call: the first attempt is in flight.
StartCall(impl, req, n) ==
    [state |-> "pending", impl |-> impl, req |-> req,
     budget |-> n, retry |-> n, attempts |-> 1, result |-> None]

\* Mutant: the retry guard lets one more attempt through.
RetryAllowedOneMore(impl, err, retry) == retry >= 0

\* The guards of the except clauses: `if retry > 0` / `if retry`.
RetryAllowed(impl, err, retry) ==
    IF impl = "coordinator" /\ err \in {"disconnect", "clienterror"}
    THEN retry # 0
    ELSE retry > 0

\* Mutant: a non-200 status is retried like a transport error.
OnResponseRetryStatus(h, status, body) ==
    IF status = 200
    THEN [h EXCEPT !.state = "returned", !.result = body]
    ELSE IF h.retry > 0
         THEN [h EXCEPT !.retry = h.retry - 1, !.attempts = h.attempts + 1]
         ELSE [h EXCEPT !.state = "returned", !.result = None]

\* `if resp.status == 200: return await resp.text()`, else fall to `return None`.
OnResponse(h, status, body) ==
    IF status = 200
    THEN [h EXCEPT !.state = "returned", !.result = body]
    ELSE [h EXCEPT !.state = "returned", !.result = None]

\* The four except clauses that retry.
OnTransportError(h, err) ==
    IF RetryAllowed(h.impl, err, h.retry)
    THEN [h EXCEPT !.retry = h.retry - 1, !.attempts = h.attempts + 1]
    ELSE [h EXCEPT !.state = "returned", !.result = None]

\* Mutant: no catch-all clause, the error leaves _http_post.
OnUnexpectedRaises(h) == [h EXCEPT !.state = "raised"]

\* `except Exception as ex:` logs and falls to `return None`.
OnUnexpected(h) == [h EXCEPT !.state = "returned", !.result = None]

\* What one attempt can end with.
Outcomes(bodies) ==
    [kind : {"response"}, status : {200}, body : bodies]
    \cup [kind : {"response"}, status : {404, 500}, body : {None}]
    \cup [kind : TransportErrors, status : {0}, body : {None}]
    \cup [kind : {"unexpected"}, status : {0}, body : {None}]

HttpStep(h, o) ==
    CASE o.kind = "response" -> OnResponse(h, o.status, o.body)
      [] o.kind \in TransportErrors -> OnTransportError(h, o.kind)
      [] OTHER -> OnUnexpected(h)


(***************************************************************************)
(* JSON values.  Every value is a tagged record, so that any two can be    *)
(* compared: None, int, str (a sequence of characters), list, and the      *)
(* object of a realtime payload.                                           *)
(***************************************************************************)
JInt(n) == [kind |-> "int", v |-> n]
JStr(s) == [kind |-> "str", v |-> s]
JList(q) == [kind |-> "list", v |-> q]
JObj(type, sn, ver, data, info) ==
    [kind |-> "obj", type |-> type, sn |-> sn, ver |-> ver,
     Data |-> data, Information |-> info]
Invalid == [kind |-> "invalid"]

\* A JSON integer above the range of a float (1 followed by 400 zeros):
\* json.loads reads it as an int, and float() of it raises OverflowError.
Huge == [kind |-> "huge"]

\* dict.get(key): None for a key the mapping does not have.
Get(obj, key) == IF key \in DOMAIN obj THEN obj[key] ELSE None

IsDict(x) == x.kind \in {"obj", "snap"}

\* Python truthiness of a JSON value.
Truthy(x) ==
    CASE x.kind = "None" -> FALSE
      [] x.kind = "int" -> x.v # 0
      [] x.kind \in {"str", "list", "map"} -> Len(x.v) > 0
      [] OTHER -> TRUE

Digits == <<"0", "1", "2", "3", "4", "5", "6", "7", "8", "9">>
DigitVal(c) == (CHOOSE i \in 1..10 : Digits[i] = c) - 1
IsDigit(c) == \E i \in 1..10 : Digits[i] = c

RECURSIVE DigitsToInt(_)
DigitsToInt(s) ==
    IF Len(s) = 0 THEN 0
    ELSE 10 * DigitsToInt(SubSeq(s, 1, Len(s) - 1)) + DigitVal(s[Len(s)])

RECURSIVE NatToDigits(_)
NatToDigits(n) ==
    IF n < 10 THEN <<Digits[n + 1]>>
    ELSE Append(NatToDigits(n \div 10), Digits[(n % 10) + 1])

\* int(x) of None, an integer, a string or a list: the number, or None
\* where Python raises TypeError / ValueError.
IntOf(x) ==
    CASE x.kind \in {"int", "huge"} -> x
      [] x.kind = "str" ->
           IF Len(x.v) > 0 /\ \A i \in 1..Len(x.v) : IsDigit(x.v[i])
           THEN JInt(DigitsToInt(x.v)) ELSE None
      [] OTHER -> None

\* str(x) of a string or a non-negative integer.
StrOf(x) ==
    CASE x.kind = "str" -> x
      [] x.kind = "int" -> JStr(NatToDigits(x.v))
      [] OTHER -> JStr(<<"?">>)

(***************************************************************************)
(* Response texts.  A text is the strings that occur in it, in order, and  *)
(* the document json.loads makes of it (Invalid: JSONDecodeError).         *)
(***************************************************************************)
StrsOfList(l) ==
    IF l.kind = "list" THEN SelectSeq(l.v, LAMBDA e : e.kind = "str") ELSE <<>>

StrsOf(doc) ==
    CASE doc.kind = "obj" ->
           SelectSeq(<<doc.type, doc.sn, doc.ver>>, LAMBDA e : e.kind = "str")
           \o StrsOfList(doc.Data) \o StrsOfList(doc.Information)
      [] doc.kind = "list" -> StrsOfList(doc)
      [] doc.kind = "str" -> <<doc>>
      [] OTHER -> <<>>

JsonText(doc) == [kind |-> "text", words |-> StrsOf(doc), parse |-> doc]
RawText(word) == [kind |-> "text", words |-> <<JStr(word)>>, parse |-> Invalid]

\* `"failed" in text`
ContainsFailed(text) ==
    \E i \in 1..Len(text.words) : IsSubstr(FAILED, text.words[i].v)

\* Mutant: the sentinel is looked for only in text that is not JSON.
ReadRealtimeParseFirst(text) ==
    IF text = None THEN None
    ELSE IF text.parse # Invalid THEN text.parse
    ELSE None

\* _read_realtime_data, from the text _http_post returned.
ReadRealtime(text) ==
    IF text = None THEN None
    ELSE IF ContainsFailed(text) THEN None
    ELSE IF text.parse = Invalid THEN None
    ELSE text.parse

\* _read_set_data, from the text _http_post returned.
ReadSet(text) ==
    IF text = None THEN None
    ELSE IF ContainsFailed(text) THEN None
    ELSE IF text.parse = Invalid THEN None
    ELSE text.parse

\* PluginFactory._read_runtime_payload, from the text _http_post returned.
ReadRuntimePayload(text) ==
    IF text = None THEN None
    ELSE IF ContainsFailed(text) THEN None
    ELSE IF text.parse = Invalid THEN None
    ELSE text.parse

(***************************************************************************)
(* The snapshot __async_get_data builds.                                   *)
(***************************************************************************)
EmptyRealtime == JObj(None, None, None, JList(<<>>), JList(<<>>))

\* dict(enumerate(x)): a mapping keyed 0..len-1, or Raise for a value that
\* cannot be iterated.
Raise(what) == [kind |-> "raise", error |-> what]
Enumerate(x) ==
    CASE x.kind = "list" -> [kind |-> "map", v |-> x.v]
      [] x.kind = "str" -> [kind |-> "map", v |-> x.v]
      [] x.kind = "obj" -> [kind |-> "map", v |-> <<JStr(<<"type">>), JStr(<<"sn">>),
                              JStr(<<"ver">>), JStr(<<"Data">>), JStr(<<"Information">>)>>]
      [] OTHER -> Raise("TypeError")

\* realtimeData.get(key, []): the default only for a missing key.
GetOrEmpty(obj, key) == IF Get(obj, key) = None THEN JList(<<>>) ELSE Get(obj, key)

\* Mutant: no empty payload stands in for a failed realtime read.
BuildSnapshotNoSubstitute(realtime, setRead) ==
    LET sd == IF Truthy(setRead) THEN setRead ELSE JList(<<>>)
    IN  IF realtime.kind # "obj" THEN Raise("AttributeError")
        ELSE [kind |-> "snap", Set |-> Enumerate(sd),
              Data |-> Enumerate(GetOrEmpty(realtime, "Data")),
              Info |-> Enumerate(GetOrEmpty(realtime, "Information")),
              RawRealtimeData |-> realtime, RawSetData |-> sd]

\* The tail of __async_get_data: `setData = ... or []`, the substitution of
\* the empty payload for a failed realtime read, and the returned dict.
BuildSnapshot(realtime, setRead) ==
    LET rt == IF realtime = None THEN EmptyRealtime ELSE realtime
        sd == IF Truthy(setRead) THEN setRead ELSE JList(<<>>)
    IN  IF rt.kind # "obj" THEN Raise("AttributeError")
        ELSE IF Enumerate(sd).kind = "raise"
                \/ Enumerate(GetOrEmpty(rt, "Data")).kind = "raise"
                \/ Enumerate(GetOrEmpty(rt, "Information")).kind = "raise"
        THEN Raise("TypeError")
        ELSE [kind |-> "snap", Set |-> Enumerate(sd),
              Data |-> Enumerate(GetOrEmpty(rt, "Data")),
              Info |-> Enumerate(GetOrEmpty(rt, "Information")),
              RawRealtimeData |-> rt, RawSetData |-> sd]

(***************************************************************************)
(* The G4 Boost/Mini plugin: identity state and _apply_payload.            *)
(***************************************************************************)
Flags(fs) == [kind |-> "flags", v |-> fs]
IsSet(x) == IF x.kind = "flags" THEN x.v # {} ELSE Truthy(x)

BOOST == JStr(<<"X", "1", "B">>)      \* "X1 Boost G4"
MINI == JStr(<<"X", "1", "M">>)       \* "X1 Mini G4"
GENERIC == JStr(<<"S", "o", "l">>)    \* "SolaX Inverter"
SUPPORTED_TYPES == {18, 22}

\* The dataclass defaults of SolaxInverterG4BoostMiniPlugin.
NewPlugin(registration, supports) ==
    [kind |-> "plugin", invertertype |-> None, runtime_type |-> None,
     info_serial |-> None, device_serial |-> None, serialnumber |-> None,
     hw_version |-> None, sw_version |-> None, model_name |-> None,
     last_payload |-> None, initial_payload |-> None, firmware |-> None,
     registration |-> registration, supports_set_data |-> supports]

InfoOf(payload) ==
    IF Truthy(Get(payload, "Information")) /\ Get(payload, "Information").kind = "list"
    THEN Get(payload, "Information").v ELSE <<>>

ModelNameOf(runtime_type) ==
    IF runtime_type = JInt(18) THEN BOOST
    ELSE IF runtime_type = JInt(22) THEN MINI
    ELSE GENERIC

\* Mutant: the model name is looked up, unguarded, from the runtime type the
\* plugin had before this payload.
ModelNameStale(p, rt) == ModelNameOf(p.runtime_type)

\* `if not self._model_name:` and the lookup by the runtime type just set.
ModelNameAfter(p, rt) ==
    IF Truthy(p.model_name) THEN p.model_name ELSE ModelNameOf(rt)

\* _apply_payload.  Each field is given by the statement that assigns it;
\* the statements read fields assigned earlier (ds, is below) in their order.
ApplyPayload(p, payload) ==
    LET info == InfoOf(payload)
        sn == Get(payload, "sn")
        rt == IF p.runtime_type = None THEN IntOf(Get(payload, "type"))
              ELSE p.runtime_type
        is == IF ~Truthy(p.info_serial) /\ Len(info) > 2 THEN StrOf(info[3])
              ELSE p.info_serial
        ds == IF p.device_serial = None /\ Truthy(sn) THEN StrOf(sn)
              ELSE p.device_serial
    IN  [p EXCEPT
           !.last_payload = payload,
           !.runtime_type = rt,
           !.invertertype = IF ~IsSet(p.invertertype) THEN Flags({"X1"})
                            ELSE p.invertertype,
           !.info_serial = is,
           !.device_serial = ds,
           !.serialnumber = IF Truthy(p.serialnumber) THEN p.serialnumber
                            ELSE IF Truthy(ds) THEN ds
                            ELSE IF Truthy(is) THEN is
                            ELSE IF Truthy(sn) THEN StrOf(sn)
                            ELSE IF Truthy(p.registration) THEN p.registration
                            ELSE p.serialnumber,
           !.hw_version = IF Len(info) > 3 /\ info[4] # None /\ info[4] # JStr(<<>>)
                          THEN StrOf(info[4]) ELSE p.hw_version,
           !.sw_version = IF Truthy(Get(payload, "ver"))
                          THEN StrOf(Get(payload, "ver")) ELSE p.sw_version,
           !.model_name = ModelNameAfter(p, rt)]

\* create_plugin, as PluginFactory.get_plugin_instance calls it.
CreatePlugin(registration, supports, payload, info_serial, device_serial, firmware) ==
    LET p0 == [NewPlugin(registration, supports) EXCEPT
                 !.serialnumber = IF Truthy(info_serial) THEN info_serial
                                  ELSE IF Truthy(device_serial) THEN device_serial
                                  ELSE registration,
                 !.initial_payload = payload,
                 !.runtime_type = IF Truthy(payload) /\ Get(payload, "type") # None
                                  THEN IntOf(Get(payload, "type")) ELSE None,
                 !.device_serial = device_serial,
                 !.info_serial = info_serial,
                 !.firmware = firmware]
        p1 == IF Truthy(firmware) THEN [p0 EXCEPT !.sw_version = firmware] ELSE p0
        p2 == IF Truthy(info_serial) THEN [p1 EXCEPT !.serialnumber = info_serial] ELSE p1
    IN  IF Truthy(payload) THEN ApplyPayload(p2, payload) ELSE p2

\* The inverter_model property: the stored name, else the lookup.
InverterModel(p) ==
    IF Truthy(p.model_name) THEN p.model_name ELSE ModelNameOf(p.runtime_type)

\* SolaxInverterG4BoostMiniPlugin.initialize
Initialize(p, data) ==
    LET payload == IF IsDict(data)
                   THEN IF IsDict(Get(data, "RawRealtimeData"))
                        THEN Get(data, "RawRealtimeData") ELSE data
                   ELSE None
    IN  IF Truthy(payload) THEN ApplyPayload(p, payload)
        ELSE IF Truthy(p.initial_payload) THEN ApplyPayload(p, p.initial_payload)
        ELSE p

(***************************************************************************)
(* Decoding (map_data).  A decoded number is kept in hundredths, which is  *)
(* exact for raw integers scaled by the descriptor factors 1.0 and 0.1.    *)
(***************************************************************************)
S16_SIGN == 32768     \* 0x8000
S16_WRAP == 65536     \* 0x10000

Num(c) == [kind |-> "num", c |-> c]

\* The floats that are no numbers: "inf", "-inf" and "nan".  json.loads reads
\* Infinity, -Infinity and NaN as these.
Special(v) == [kind |-> "special", v |-> v]

\* A descriptor; factor10 is the factor in tenths, vf the PV-power function.
Descr(index, source, factor10, unit, invert, precision, vf) ==
    [kind |-> "descr", isDescr |-> TRUE, index |-> index, source |-> source,
     factor10 |-> factor10, unit |-> unit, invert_sign |-> invert,
     precision |-> precision, vf |-> vf, register |-> None]

\* Something that is no InverterSensorDescription.
NotADescr == [kind |-> "descr", isDescr |-> FALSE, register |-> None]

ac_power == Descr(JInt(3), "Data", 10, "none", FALSE, JInt(0), None)
pv1_voltage == Descr(JInt(0), "Data", 1, "none", FALSE, JInt(1), None)
grid_power == Descr(JInt(72), "Data", 10, "S16", FALSE, JInt(0), None)
pv1_power == Descr(JInt(0), "Data", 1, "none", FALSE, JInt(0),
                   [index |-> JInt(1), factor10 |-> 1])

\* _extract_index_value: a list and an enumerated dict answer alike.
ExtractIndexValue(container, index) ==
    IF index = None \/ container = None THEN None
    ELSE IF container.kind \in {"list", "map"}
            /\ 0 <= index.v /\ index.v < Len(container.v)
    THEN container.v[index.v + 1]
    ELSE None

\* What one candidate dict gives for a container type.
ContainerIn(candidate, container_type) ==
    CASE container_type \in {"Data", "data"} -> Get(candidate, "Data")
      [] container_type \in {"Info", "info", "Information", "information"} ->
           IF Truthy(Get(candidate, "Information"))
           THEN Get(candidate, "Information") ELSE Get(candidate, "Info")
      [] container_type \in {"Payload", "payload"} -> candidate
      [] OTHER -> None

\* _get_container_for_source
GetContainerForSource(source, container_type) ==
    IF source = None THEN None
    ELSE IF source.kind = "list" THEN source
    ELSE IF ~IsDict(source) THEN None
    ELSE LET raw == Get(source, "RawRealtimeData")
         IN  IF IsDict(raw) /\ ContainerIn(raw, container_type) # None
             THEN ContainerIn(raw, container_type)
             ELSE ContainerIn(source, container_type)

\* _resolve_data_value
ResolveDataValue(data, last_payload, index, source) ==
    LET first == ExtractIndexValue(GetContainerForSource(data, source), index)
    IN  IF first # None THEN first
        ELSE ExtractIndexValue(GetContainerForSource(last_payload, source), index)

\* float(x) in hundredths: None where Python raises TypeError or ValueError,
\* Raise for the OverflowError of an integer no float can hold.
FloatOf(x) ==
    CASE x.kind \in {"num", "special"} -> x
      [] x.kind = "huge" -> Raise("OverflowError")
      [] x.kind = "int" -> Num(100 * x.v)
      [] x.kind = "str" -> IF IntOf(x) = None THEN None ELSE Num(100 * IntOf(x).v)
      [] OTHER -> None

\* round(value, precision): half to even, at 10^-precision.
RoundTo(c, precision) ==
    LET unit == IF precision = 0 THEN 100 ELSE IF precision = 1 THEN 10 ELSE 1
        q == c \div unit
        r == c % unit
    IN  IF 2 * r < unit THEN q * unit
        ELSE IF 2 * r > unit THEN (q + 1) * unit
        ELSE IF q % 2 = 0 THEN q * unit ELSE (q + 1) * unit

\* The product of two floats, of which c is a positive constant when given
\* as hundredths: inf * 0 is nan.
Times(a, b) ==
    IF a.kind = "num" /\ b.kind = "num" THEN Num((a.c * b.c) \div 100)
    ELSE IF (a.kind = "special" /\ a.v = "nan") \/ (b.kind = "special" /\ b.v = "nan")
    THEN Special("nan")
    ELSE IF (a.kind = "num" /\ a.c = 0) \/ (b.kind = "num" /\ b.c = 0)
    THEN Special("nan")
    ELSE IF (IF a.kind = "num" THEN a.c < 0 ELSE a.v = "-inf")
            = (IF b.kind = "num" THEN b.c < 0 ELSE b.v = "-inf")
    THEN Special("inf") ELSE Special("-inf")

\* The value function _make_pv_power_function builds.
PvPower(voltage, vf, data, last_payload) ==
    LET raw_current == ResolveDataValue(data, last_payload, vf.index, "Data")
    IN  IF raw_current = None \/ FloatOf(raw_current) = None THEN None
        ELSE IF FloatOf(raw_current).kind = "raise" THEN FloatOf(raw_current)
        ELSE Times(voltage, Times(FloatOf(raw_current), Num(10 * vf.factor10)))

\* Mutant: map_data leaves the cached payload as it was.
MapDataPluginKept(p, descr, data) == p

\* The plugin after map_data: the payload of the data is applied.
MapDataPlugin(p, descr, data) ==
    IF ~descr.isDescr \/ data = None \/ ~IsDict(data) THEN p
    ELSE IF IsDict(Get(data, "RawRealtimeData"))
         THEN ApplyPayload(p, Get(data, "RawRealtimeData"))
         ELSE ApplyPayload(p, data)

\* int(raw_value) under `except (TypeError, ValueError)`: None where one of
\* the two is raised and caught (int(nan) raises ValueError), and the
\* OverflowError of int(inf), which the clause does not name.
IntConv(x) ==
    IF x.kind = "special"
    THEN IF x.v = "nan" THEN None ELSE Raise("OverflowError")
    ELSE IF x.kind = "num"
    THEN JInt(IF x.c >= 0 THEN x.c \div 100 ELSE 0 - ((0 - x.c) \div 100))
    ELSE IntOf(x)

\* Mutant: the sign bit is tested with > in place of >=.
Unwrap16Above(descr, raw) ==
    IF descr.unit # "S16" \/ raw = None THEN raw
    ELSE IF IntConv(raw) = None \/ IntConv(raw).kind \in {"raise", "huge"}
    THEN IntConv(raw)
    ELSE IF IntConv(raw).v > S16_SIGN THEN JInt(IntConv(raw).v - S16_WRAP)
    ELSE IntConv(raw)

\* `if descr.unit == S16:` the two's-complement reading of the raw value.
Unwrap16(descr, raw) ==
    IF descr.unit # "S16" \/ raw = None THEN raw
    ELSE IF IntConv(raw) = None \/ IntConv(raw).kind \in {"raise", "huge"}
    THEN IntConv(raw)
    ELSE IF IntConv(raw).v >= S16_SIGN THEN JInt(IntConv(raw).v - S16_WRAP)
    ELSE IntConv(raw)

\* `value = float(raw_value)`, `value *= descr.factor`
Scale(descr, raw) ==
    IF raw = None \/ raw.kind = "raise" THEN raw
    ELSE IF FloatOf(raw) = None \/ FloatOf(raw).kind = "raise" THEN FloatOf(raw)
    ELSE Times(FloatOf(raw), Num(10 * descr.factor10))

\* `if descr.value_function is not None:`
Derive(descr, value, data, last_payload) ==
    IF value = None \/ value.kind = "raise" \/ descr.vf = None THEN value
    ELSE PvPower(value, descr.vf, data, last_payload)

\* -value
Negated(value) ==
    IF value.kind = "num" THEN Num(0 - value.c)
    ELSE IF value.v = "inf" THEN Special("-inf")
    ELSE IF value.v = "-inf" THEN Special("inf")
    ELSE value

\* `if descr.invert_sign:` and `if descr.precision is not None:`
SignAndRound(descr, value) ==
    IF value = None \/ value.kind = "raise" THEN value
    ELSE IF value.kind = "special"
    THEN IF descr.invert_sign THEN Negated(value) ELSE value
    ELSE IF descr.precision # None
    THEN Num(RoundTo(IF descr.invert_sign THEN 0 - value.c ELSE value.c,
                     descr.precision.v))
    ELSE Num(IF descr.invert_sign THEN 0 - value.c ELSE value.c)

\* F applied to the value of v, which is computed once.
Bind(v, F(_)) == CHOOSE r \in {F(x) : x \in {v}} : TRUE

\* The value map_data returns; q is the plugin once the payload is applied.
MapDataValue(p, descr, data) ==
    IF ~descr.isDescr THEN None
    ELSE Bind(MapDataPlugin(p, descr, data).last_payload, LAMBDA last :
         Bind(IF GetContainerForSource(data, descr.source) = None
              THEN GetContainerForSource(last, descr.source)
              ELSE GetContainerForSource(data, descr.source), LAMBDA container :
         Bind(Unwrap16(descr, ExtractIndexValue(container, descr.index)), LAMBDA raw :
         Bind(Scale(descr, raw), LAMBDA scaled :
         Bind(Derive(descr, scaled, data, last), LAMBDA derived :
              SignAndRound(descr, derived))))))

(***************************************************************************)
(* Inputs of the model: what the device answers and what callers ask.      *)
(***************************************************************************)
Ch(s) == JStr(s)
INFO_A == JList(<<JInt(0), JInt(0), Ch(<<"I", "S">>), Ch(<<"h", "1">>), Ch(<<"f", "1">>)>>)

Payload(type, reg3, ver) ==
    JObj(type, Ch(<<"S", "N">>), ver,
         JList(<<JInt(3605), JInt(25), JInt(0), JInt(reg3)>>), INFO_A)

VER == Ch(<<"v", "1">>)
VER_FAILED == Ch(<<"x", "f", "a", "i", "l", "e", "d">>)

RealtimeTexts ==
    { JsonText(Payload(JInt(18), 500, VER)),
      JsonText(Payload(JInt(18), 700, VER)),
      JsonText(Payload(JInt(18), 500, VER_FAILED)),
      RawText(<<"o", "o", "p", "s">>),
      JsonText(JInt(5)) }

SetTexts ==
    { JsonText(JList(<<JInt(1), JInt(2)>>)),
      JsonText(JList(<<Ch(FAILED)>>)),
      JsonText(JInt(5)) }

WriteTexts == { JsonText(Ch(<<"o", "k">>)) }

DetectTexts ==
    RealtimeTexts
    \cup { JsonText(JObj(JInt(99), None, None, JList(<<>>),
                         JList(<<JInt(0), JInt(0), Ch(<<"Z", "Z">>)>>))),
           JsonText(JObj(JInt(18), None, None, JList(<<>>),
                         JList(<<JInt(0), JInt(0), Ch(<<"C", "1", "0", "7", "0">>)>>))) }

TextsFor(req) ==
    CASE req = "ReadRealTimeData" -> RealtimeTexts
      [] req = "ReadSetData" -> SetTexts
      [] req = "Detect" -> DetectTexts
      [] OTHER -> WriteTexts

\* A control point with a writable register, and one without.
limit == [ac_power EXCEPT !.register = JInt(7)]
WriteDescrs == {limit, ac_power, NotADescr}
WriteValues == {Num(50000), Num(70000)}
REGISTRATION == Ch(<<"p", "w">>)

\* plugin.map_payload: the wire form of the value for the descriptor's
\* register, None for a descriptor with no write semantics.
MapPayload(descr, value) ==
    IF descr.register = None THEN None
    ELSE JList(<<descr.register, value>>)

(***************************************************************************)
(* PluginFactory: serial-pattern detection.  A bitmask is its set of flags. *)
(***************************************************************************)
CharAt(s, i) == IF Len(s) > i THEN s[i + 1] ELSE "none"

\* Mutant: the power class is read from characters 1-2.
Slice13(s) == SubSeq(s, 2, IF Len(s) < 3 THEN Len(s) ELSE 3)

\* sn[2:4]
Slice24(s) == SubSeq(s, 3, IF Len(s) < 4 THEN Len(s) ELSE 4)
StartsWith(s, pre) == Len(s) >= Len(pre) /\ SubSeq(s, 1, Len(pre)) = pre

\* _determine_type
DetermineType(sn) ==
    IF ~Truthy(sn) THEN None
    ELSE IF StartsWith(sn.v, <<"C">>)
    THEN Flags((IF CharAt(sn.v, 4) = "0" THEN {"V10"}
                ELSE IF CharAt(sn.v, 4) = "1" THEN {"V11"} ELSE {})
               \cup (IF CharAt(sn.v, 1) = "1" THEN {"X1"}
                     ELSE IF CharAt(sn.v, 1) = "3" THEN {"X3"} ELSE {})
               \cup (IF Slice24(sn.v) = <<"0", "7">> THEN {"POW7"}
                     ELSE IF Slice24(sn.v) = <<"1", "1">> THEN {"POW11"}
                     ELSE IF Slice24(sn.v) = <<"2", "2">> THEN {"POW22"} ELSE {}))
    ELSE IF StartsWith(sn.v, <<"5", "0">>)
    THEN Flags({"V20"}
               \cup (IF CharAt(sn.v, 2) = "3" THEN {"X3"}
                     ELSE IF CharAt(sn.v, 2) = "2" THEN {"X1"} ELSE {})
               \cup (IF CharAt(sn.v, 4) = "B" THEN {"POW11"}
                     ELSE IF CharAt(sn.v, 4) = "M" THEN {"POW22"}
                     ELSE IF CharAt(sn.v, 4) = "7" THEN {"POW7"} ELSE {}))
    ELSE None

\* The ValueError of line 260, with the two values its message is made of.
UnknownType(info_serial, runtime_type_raw) ==
    [kind |-> "raise", error |-> "ValueError: unknown inverter type",
     serial |-> info_serial, runtime_type |-> runtime_type_raw]

\* Mutant: any nonzero bitmask without the generation-2 flag is a
\* generation-1 charger.
ChargerOfAnyMask(invertertype) ==
    IF ~IsSet(invertertype) THEN "none"
    ELSE IF "V20" \in invertertype.v THEN "solax_ev_charger_g2"
    ELSE "solax_ev_charger"

\* `if invertertype:` and the two tests under it: the charger plugin the
\* bitmask selects.
ChargerOf(invertertype) ==
    IF ~IsSet(invertertype) THEN "none"
    ELSE IF invertertype.v \cap {"V10", "V11"} # {} THEN "solax_ev_charger"
    ELSE IF "V20" \in invertertype.v THEN "solax_ev_charger_g2"
    ELSE "none"

\* The part of get_plugin_instance that follows the read of the payload.
\* A charger plugin is a class outside this module: only its choice is kept.
\* The type is converted only when no charger was chosen; int() of the float
\* infinity raises OverflowError, which `except (TypeError, ValueError)`
\* lets through.
GetPluginInstance(payload, registration, device_serial, supports) ==
    IF payload = None THEN Raise("ValueError: unable to read")
    ELSE IF payload.kind # "obj" THEN Raise("AttributeError")  \* payload.get
    ELSE
    LET info == InfoOf(payload)
        info_serial == IF Len(info) > 2 /\ info[3] # None THEN StrOf(info[3]) ELSE None
        firmware == IF Len(info) > 4 /\ info[5] # None THEN StrOf(info[5]) ELSE None
        invertertype == DetermineType(info_serial)
        runtime_type == IntConv(Get(payload, "type"))
    IN  IF ChargerOf(invertertype) # "none"
        THEN [kind |-> "charger", name |-> ChargerOf(invertertype),
              serialnumber |-> info_serial, invertertype |-> invertertype,
              sw_version |-> firmware]
        ELSE IF runtime_type # None /\ runtime_type.kind = "raise"
        THEN runtime_type
        ELSE IF runtime_type # None /\ runtime_type.kind = "int"
                /\ runtime_type.v \in SUPPORTED_TYPES
        THEN CreatePlugin(registration, supports, payload, info_serial,
                          device_serial, firmware)
        ELSE UnknownType(info_serial, Get(payload, "type"))

(***************************************************************************)
(* State.                                                                  *)
(***************************************************************************)
VARIABLES
    pc,       \* where each task is: idle, or awaiting a POST (rt, set, post)
    http,     \* the _http_post call each task awaits
    loc,      \* the locals of each task's running operation and its outcome
    log,      \* per task: the POST calls and publications of its operation
    elapsed,  \* per task: time the awaited fetch has taken, in API_TIMEOUTs
    data,     \* coordinator.data, the current snapshot
    plugin,   \* the plugin the factory returned, None before detection
    ptrace,   \* the outcomes of the attempts of a free-standing POST, in order
    gate,     \* the request-refresh Debouncer: its timer and what it holds back
    call      \* the last call made on a plugin directly, with its outcome

vars == <<pc, http, loc, log, elapsed, data, plugin, ptrace, gate, call>>

Tasks == {"post", "detect", "update", "write"}

IdleLoc ==
    [status |-> "idle", error |-> "none", stage |-> "none",
     descr |-> NotADescr, value |-> None, always |-> FALSE, payload |-> None,
     before |-> None, rtText |-> None, realtime |-> None, rtFailed |-> FALSE,
     setText |-> None, setRead |-> None, current |-> None, compared |-> FALSE,
     posted |-> FALSE, resp |-> None, result |-> None, initialized |-> FALSE]

Post(req) == [ev |-> "post", req |-> req]
Publish == [ev |-> "publish", req |-> "none"]

TypeOK ==
    /\ pc \in [Tasks -> {"idle", "rt", "set", "post"}]
    /\ \A t \in Tasks : http[t].state \in {"idle", "pending", "returned", "raised"}
    /\ \A t \in Tasks : elapsed[t] \in 0..(MaxElapsed + 1)

\* The Debouncer of __init__: cooldown=REQUEST_REFRESH_DELAY, immediate=False.
\* Its timer is off until a refresh is requested; runs counts the fetches of
\* the device begun since the timer was last started, up to MaxRuns.
GateOff == [timer |-> "off", pending |-> FALSE, runs |-> 0]

\* A fetch of the device begins (a ReadRealTimeData POST of __async_get_data).
Started(g) ==
    IF g.timer = "on" /\ g.runs < MaxRuns THEN [g EXCEPT !.runs = g.runs + 1] ELSE g

\* No call has been made on the plugin directly.
NoCall == [op |-> "none"]

\* A call: what was called, with which descriptor and argument, the plugin
\* before and after it, and what it returned or raised.
Called(op, descr, arg, before, after, value) ==
    [op |-> op, descr |-> descr, arg |-> arg, before |-> before, after |-> after,
     value |-> value]

Init ==
    /\ pc = [t \in Tasks |-> "idle"]
    /\ http = [t \in Tasks |-> IdleCall]
    /\ loc = [t \in Tasks |-> IdleLoc]
    /\ log = [t \in Tasks |-> <<>>]
    /\ elapsed = [t \in Tasks |-> 0]
    /\ data = None
    /\ plugin = None
    /\ ptrace = <<>>
    /\ gate = GateOff
    /\ call = NoCall

(***************************************************************************)
(* Transport steps, shared by every task.                                  *)
(***************************************************************************)
\* One attempt of the awaited call ends with outcome o.
HttpAttempt(t, o) ==
    /\ t # "post"
    /\ http[t].state = "pending"
    /\ o \in Outcomes(TextsFor(http[t].req))
    /\ http' = [http EXCEPT ![t] = HttpStep(http[t], o)]
    /\ UNCHANGED <<pc, loc, log, elapsed, data, plugin, ptrace, gate, call>>

\* A free-standing _http_post(url, payload, retry=n) of either class.
PostCall(impl, n) ==
    /\ pc["post"] = "idle"
    /\ impl \in Impls /\ n \in 0..MaxRetry
    /\ pc' = [pc EXCEPT !["post"] = "post"]
    /\ http' = [http EXCEPT !["post"] = StartCall(impl, "setReg", n)]
    /\ ptrace' = <<>>
    /\ UNCHANGED <<loc, log, elapsed, data, plugin, gate, call>>

PostAttempt(o) ==
    /\ http["post"].state = "pending"
    /\ o \in Outcomes(WriteTexts)
    /\ http' = [http EXCEPT !["post"] = HttpStep(http["post"], o)]
    /\ ptrace' = Append(ptrace, o)
    /\ UNCHANGED <<pc, loc, log, elapsed, data, plugin, gate, call>>

PostReturn ==
    /\ pc["post"] = "post"
    /\ http["post"].state \in {"returned", "raised"}
    /\ pc' = [pc EXCEPT !["post"] = "idle"]
    /\ UNCHANGED <<http, loc, log, elapsed, data, plugin, ptrace, gate, call>>

NextTransport ==
    \/ \E impl \in Impls, n \in 0..MaxRetry : PostCall(impl, n)
    \/ \E o \in Outcomes(WriteTexts) : PostAttempt(o)
    \/ PostReturn

SpecTransport == Init /\ [][NextTransport]_vars


(***************************************************************************)
(* PluginFactory.get_plugin_instance: the detection-time read and the      *)
(* choice of the plugin.                                                   *)
(***************************************************************************)
Begin(t, impl, req) ==
    /\ http' = [http EXCEPT ![t] = StartCall(impl, req, DefaultRetry)]
    /\ log' = [log EXCEPT ![t] = Append(log[t], Post(req))]

DetectStart ==
    /\ plugin = None
    /\ pc["detect"] = "idle" /\ loc["detect"].status = "idle"
    /\ pc' = [pc EXCEPT !["detect"] = "rt"]
    /\ loc' = [loc EXCEPT !["detect"] = [IdleLoc EXCEPT !.status = "running",
                                                       !.stage = "detect"]]
    /\ http' = [http EXCEPT !["detect"] = StartCall("factory", "Detect", DefaultRetry)]
    /\ log' = [log EXCEPT !["detect"] = <<Post("Detect")>>]
    /\ UNCHANGED <<elapsed, data, plugin, ptrace, gate, call>>

DetectDone(device_serial, supports) ==
    /\ pc["detect"] = "rt" /\ http["detect"].state = "returned"
    /\ \E text \in {http["detect"].result} :
       \E payload \in {ReadRuntimePayload(text)} :
       \E made \in {GetPluginInstance(payload, REGISTRATION, device_serial, supports)} :
           /\ loc' = [loc EXCEPT !["detect"] =
                        [@ EXCEPT !.status = IF made.kind = "raise" THEN "raised"
                                             ELSE "returned",
                                  !.error = IF made.kind = "raise" THEN made.error
                                            ELSE "none",
                                  !.rtText = text,
                                  !.realtime = payload,
                                  !.rtFailed = (payload = None)]]
           /\ plugin' = IF made.kind = "raise" THEN None ELSE made
           /\ call' = Called("detect", NotADescr, payload, None, plugin', made)
    /\ pc' = [pc EXCEPT !["detect"] = "idle"]
    /\ http' = [http EXCEPT !["detect"] = IdleCall]
    /\ UNCHANGED <<log, elapsed, data, ptrace, gate>>

(***************************************************************************)
(* The coordinator.  __async_get_data is used by _async_update_data (stage *)
(* update) and twice by write_register (stages get1 and get2).             *)
(***************************************************************************)
Ready == plugin # None /\ plugin.kind = "plugin"

StartFetch(t, stage) ==
    /\ pc' = [pc EXCEPT ![t] = "rt"]
    /\ Begin(t, "coordinator", "ReadRealTimeData")
    /\ elapsed' = [elapsed EXCEPT ![t] = 0]
    /\ gate' = Started(gate)

Return(t, l) ==
    /\ pc' = [pc EXCEPT ![t] = "idle"]
    /\ loc' = [loc EXCEPT ![t] = [l EXCEPT !.status = "returned"]]

RaiseOut(t, l, error) ==
    /\ pc' = [pc EXCEPT ![t] = "idle"]
    /\ loc' = [loc EXCEPT ![t] = [l EXCEPT !.status = "raised", !.error = error]]

\* Line 151: the write goes ahead unless the decoded value equals the request.
\* Mutant: the comparison is lost and the write always goes ahead.
NeedsWriteAlways(current_value, value) == TRUE

NeedsWrite(current_value, value) == current_value # value

\* Lines 148 and 161: `if not always` around both refreshes.
\* Mutant: no refresh after the write.
RefreshAroundNever(always) == FALSE

RefreshAround(always) == ~always

\* Line 145: `if payload is None: return`.
\* Mutant: a missing mapping does not stop the write.
NoMappingIgnored(payload) == FALSE

NoMapping(payload) == payload = None

\* A starting operation drops what finished operations left behind: the
\* locals and the log of a task are kept only until the next operation begins.
Fresh(f, t, new, idle) ==
    [u \in Tasks |-> IF u = t THEN new ELSE IF pc[u] = "idle" THEN idle ELSE f[u]]

\* _async_update_data, up to its first await; g is the Debouncer as the
\* caller leaves it.
Refresh(g) ==
    /\ Ready
    /\ pc["update"] = "idle"
    /\ loc' = Fresh(loc, "update", [IdleLoc EXCEPT !.status = "running",
                                                  !.stage = "update"], IdleLoc)
    /\ log' = Fresh(log, "update", <<Post("ReadRealTimeData")>>, <<>>)
    /\ http' = [http EXCEPT !["update"] =
                  StartCall("coordinator", "ReadRealTimeData", DefaultRetry)]
    /\ pc' = [pc EXCEPT !["update"] = "rt"]
    /\ elapsed' = [elapsed EXCEPT !["update"] = 0]
    /\ gate' = Started(g)
    /\ UNCHANGED <<data, plugin, ptrace, call>>

\* The refresh of the update interval.
UpdateStart == Refresh(gate)

\* write_register, up to its first await or its return.
WriteStart(descr, value, always) ==
    /\ Ready
    /\ pc["write"] = "idle"
    /\ LET payload == MapPayload(descr, value)
           l == [IdleLoc EXCEPT !.status = "running", !.descr = descr,
                                !.value = value, !.always = always,
                                !.payload = payload]
       IN  IF NoMapping(payload)
           THEN /\ pc' = [pc EXCEPT !["write"] = "idle"]
                /\ loc' = Fresh(loc, "write", [l EXCEPT !.status = "returned",
                                                        !.before = data], IdleLoc)
                /\ log' = Fresh(log, "write", <<>>, <<>>)
                /\ UNCHANGED <<http, elapsed, gate>>
           ELSE IF RefreshAround(always)
           THEN /\ loc' = Fresh(loc, "write", [l EXCEPT !.stage = "get1"], IdleLoc)
                /\ pc' = [pc EXCEPT !["write"] = "rt"]
                /\ log' = Fresh(log, "write", <<Post("ReadRealTimeData")>>, <<>>)
                /\ http' = [http EXCEPT !["write"] =
                              StartCall("coordinator", "ReadRealTimeData", DefaultRetry)]
                /\ elapsed' = [elapsed EXCEPT !["write"] = 0]
                /\ gate' = Started(gate)
           ELSE /\ loc' = Fresh(loc, "write", [l EXCEPT !.stage = "post"], IdleLoc)
                /\ pc' = [pc EXCEPT !["write"] = "post"]
                /\ log' = Fresh(log, "write", <<Post("setReg")>>, <<>>)
                /\ http' = [http EXCEPT !["write"] =
                              StartCall("coordinator", "setReg", DefaultRetry)]
                /\ elapsed' = [elapsed EXCEPT !["write"] = 0]
                /\ UNCHANGED gate
    /\ UNCHANGED <<data, plugin, ptrace, call>>

\* Mutant: every refresh initializes the plugin.
NeedsInitializeAlways(p) == TRUE

\* Line 90: `if self.plugin.invertertype is None:`
NeedsInitialize(p) == p.invertertype = None

\* What follows __async_get_data in its caller, given what it returned.
AfterGetData(t, l, snap) ==
    IF snap.kind = "raise"
    THEN /\ RaiseOut(t, l, snap.error)
         /\ http' = [http EXCEPT ![t] = IdleCall]
         /\ UNCHANGED <<log, elapsed, data, plugin>>
    ELSE IF l.stage = "update"
    THEN \* `if self.plugin.invertertype is None: initialize(data)`, `return data`;
         \* the DataUpdateCoordinator keeps what a refresh returns as its data.
         /\ plugin' = IF NeedsInitialize(plugin) THEN Initialize(plugin, snap)
                      ELSE plugin
         /\ data' = snap
         /\ Return(t, [l EXCEPT !.result = snap,
                                !.initialized = NeedsInitialize(plugin)])
         /\ http' = [http EXCEPT ![t] = IdleCall]
         /\ UNCHANGED <<log, elapsed>>
    ELSE IF l.stage = "get1"
    THEN \* `self.data = ...`, `current_value = self.get_data(...)`
         \E current \in {MapDataValue(plugin, l.descr, snap)} :
         \E l1 \in {[l EXCEPT !.current = current, !.compared = TRUE]} :
             /\ data' = snap
             /\ plugin' = MapDataPlugin(plugin, l.descr, snap)
             /\ IF NeedsWrite(current, l.value)
                THEN /\ loc' = [loc EXCEPT ![t] = [l1 EXCEPT !.stage = "post"]]
                     /\ pc' = [pc EXCEPT ![t] = "post"]
                     /\ Begin(t, "coordinator", "setReg")
                     /\ elapsed' = [elapsed EXCEPT ![t] = 0]
                ELSE /\ Return(t, l1)
                     /\ http' = [http EXCEPT ![t] = IdleCall]
                     /\ UNCHANGED <<log, elapsed>>
    ELSE \* stage get2: `self.async_set_updated_data(data)`
         /\ data' = snap
         /\ log' = [log EXCEPT ![t] = Append(log[t], Publish)]
         /\ Return(t, [l EXCEPT !.result = snap])
         /\ http' = [http EXCEPT ![t] = IdleCall]
         /\ UNCHANGED <<elapsed, plugin>>

\* __async_get_data after the realtime read returned.
GetDataRealtime(t) ==
    /\ t \in {"update", "write"}
    /\ pc[t] = "rt" /\ http[t].state = "returned"
    /\ \E realtime \in {ReadRealtime(http[t].result)} :
       \E l \in {[loc[t] EXCEPT !.rtText = http[t].result, !.realtime = realtime,
                                 !.rtFailed = (realtime = None)]} :
           IF plugin.supports_set_data
           THEN /\ loc' = [loc EXCEPT ![t] = l]
                /\ pc' = [pc EXCEPT ![t] = "set"]
                /\ Begin(t, "coordinator", "ReadSetData")
                /\ UNCHANGED <<elapsed, data, plugin>>
           ELSE \E snap \in {BuildSnapshot(realtime, JList(<<>>))} :
                   AfterGetData(t, l, snap)
    /\ UNCHANGED <<ptrace, gate, call>>

\* __async_get_data after the set-data read returned.
GetDataSet(t) ==
    /\ t \in {"update", "write"}
    /\ pc[t] = "set" /\ http[t].state = "returned"
    /\ \E sd \in {ReadSet(http[t].result)} :
       \E snap \in {BuildSnapshot(loc[t].realtime, sd)} :
          AfterGetData(t, [loc[t] EXCEPT !.setText = http[t].result, !.setRead = sd],
                       snap)
    /\ UNCHANGED <<ptrace, gate, call>>

\* write_register after the setReg POST returned.
WritePosted ==
    /\ pc["write"] = "post" /\ http["write"].state = "returned"
    /\ IF RefreshAround(loc["write"].always)
       THEN /\ loc' = [loc EXCEPT !["write"] =
                         [@ EXCEPT !.stage = "get2", !.posted = TRUE,
                                   !.resp = http["write"].result,
                                   !.rtText = None, !.realtime = None,
                                   !.rtFailed = FALSE, !.setText = None,
                                   !.setRead = None]]
            /\ StartFetch("write", "get2")
       ELSE /\ Return("write", [loc["write"] EXCEPT !.posted = TRUE,
                                                   !.resp = http["write"].result])
            /\ http' = [http EXCEPT !["write"] = IdleCall]
            /\ UNCHANGED <<log, elapsed, gate>>
    /\ UNCHANGED <<data, plugin, ptrace, call>>

Next ==
    \/ DetectStart
    \/ \E ds \in {None, Ch(<<"D", "S">>)}, sup \in BOOLEAN : DetectDone(ds, sup)
    \/ \E t \in Tasks : \E o \in Outcomes(TextsFor(http[t].req)) : HttpAttempt(t, o)
    \/ (pc["write"] = "idle" /\ UpdateStart)
    \/ \E d \in WriteDescrs, v \in WriteValues, a \in BOOLEAN :
          (pc["update"] = "idle" /\ WriteStart(d, v, a))
    \/ \E t \in Tasks : GetDataRealtime(t)
    \/ \E t \in Tasks : GetDataSet(t)
    \/ WritePosted

Spec == Init /\ [][Next]_vars

(***************************************************************************)
(* Time.  An attempt that does not end keeps its task waiting; only        *)
(* _async_update_data runs its fetch under asyncio.timeout.                *)
(***************************************************************************)
Deadline == DeadlineFactor     \* 10 * API_TIMEOUT, in units of API_TIMEOUT

\* Mutant: no asyncio.timeout around the fetch of a refresh.
HasDeadlineNever(stage) == FALSE

\* `async with asyncio.timeout(10 * API_TIMEOUT)` is in _async_update_data
\* alone; write_register awaits __async_get_data bare.
HasDeadline(stage) == stage = "update"

\* The awaited attempt is still out after one more unit of time.
HttpWait(t) ==
    /\ t \in {"update", "write"}
    /\ http[t].state = "pending"
    /\ elapsed[t] < MaxElapsed
    /\ HasDeadline(loc[t].stage) => elapsed[t] < Deadline
    /\ elapsed' = [elapsed EXCEPT ![t] = elapsed[t] + 1]
    /\ UNCHANGED <<pc, http, loc, log, data, plugin, ptrace, gate, call>>

\* The deadline cancels the awaited call; TimeoutError leaves the
\* `async with`, and `except SolaXApiError` does not catch it.
DeadlineExpire(t) ==
    /\ t \in {"update", "write"}
    /\ HasDeadline(loc[t].stage)
    /\ http[t].state = "pending"
    /\ elapsed[t] = Deadline
    /\ RaiseOut(t, loc[t], "TimeoutError")
    /\ http' = [http EXCEPT ![t] = IdleCall]
    /\ UNCHANGED <<log, elapsed, data, plugin, ptrace, gate, call>>

\* The timed specification: the same operations, with fewer answers of the
\* device to choose from, and time passing while a call is awaited.
NextDeadline ==
    \/ DetectStart
    \/ \E sup \in BOOLEAN : DetectDone(None, sup)
    \/ \E t \in Tasks : \E o \in Outcomes({JsonText(Payload(JInt(18), 500, VER))}) :
          /\ o.kind \in {"response", "timeout"} /\ o.status \in {0, 200}
          /\ HttpAttempt(t, o)
    \/ (pc["write"] = "idle" /\ UpdateStart)
    \/ \E a \in BOOLEAN : (pc["update"] = "idle" /\ WriteStart(limit, Num(70000), a))
    \/ \E t \in Tasks : GetDataRealtime(t)
    \/ \E t \in Tasks : GetDataSet(t)
    \/ WritePosted
    \/ \E t \in Tasks : HttpWait(t)
    \/ \E t \in Tasks : DeadlineExpire(t)

SpecDeadline == Init /\ [][NextDeadline]_vars

(***************************************************************************)
(* Overlap.  _async_update_data and write_register are coroutines on one   *)
(* event loop: each runs until it awaits a POST, and while it waits the    *)
(* loop runs whichever other coroutine is ready.  Neither takes a lock, so *)
(* here either operation may start while the other one is suspended.       *)
(***************************************************************************)
NextOverlap ==
    \/ DetectStart
    \/ \E sup \in BOOLEAN : DetectDone(None, sup)
    \/ \E t \in Tasks : \E o \in Outcomes({JsonText(Payload(JInt(18), 500, VER))}) :
          /\ o.kind \in {"response", "timeout"} /\ o.status \in {0, 200}
          /\ HttpAttempt(t, o)
    \/ UpdateStart
    \/ \E a \in BOOLEAN : WriteStart(limit, Num(70000), a)
    \/ \E t \in Tasks : GetDataRealtime(t)
    \/ \E t \in Tasks : GetDataSet(t)
    \/ WritePosted

SpecOverlap == Init /\ [][NextOverlap]_vars

(***************************************************************************)
(* The request-refresh Debouncer that __init__ hands to the                *)
(* DataUpdateCoordinator (cooldown=REQUEST_REFRESH_DELAY, immediate=False). *)
(* A cooldown window is the time its timer runs.                           *)
(***************************************************************************)
\* async_request_refresh: nothing runs at once; the first request starts the
\* timer, a request made while it runs is merged with the one held back.
RequestRefresh ==
    /\ Ready
    /\ gate' = IF gate.timer = "off"
               THEN [timer |-> "on", pending |-> TRUE, runs |-> 0]
               ELSE [gate EXCEPT !.pending = TRUE]
    /\ UNCHANGED <<pc, http, loc, log, elapsed, data, plugin, ptrace, call>>

\* The timer ends with a request held back: the one trailing refresh runs and
\* the timer starts again.
GateFire ==
    /\ gate.timer = "on" /\ gate.pending
    /\ Refresh([timer |-> "on", pending |-> FALSE, runs |-> 0])

\* The timer ends with nothing held back.
GateRest ==
    /\ gate.timer = "on" /\ ~gate.pending
    /\ gate' = GateOff
    /\ UNCHANGED <<pc, http, loc, log, elapsed, data, plugin, ptrace, call>>

NextGate ==
    \/ DetectStart
    \/ \E sup \in BOOLEAN : DetectDone(None, sup)
    \/ \E t \in Tasks : \E o \in Outcomes({JsonText(Payload(JInt(18), 500, VER))}) :
          /\ o.kind \in {"response", "timeout"} /\ o.status \in {0, 200}
          /\ HttpAttempt(t, o)
    \/ RequestRefresh
    \/ GateFire
    \/ GateRest
    \/ \E a \in BOOLEAN : WriteStart(limit, Num(70000), a)
    \/ \E t \in Tasks : GetDataRealtime(t)
    \/ \E t \in Tasks : GetDataSet(t)
    \/ WritePosted

SpecGate == Init /\ [][NextGate]_vars

(***************************************************************************)
(* The plugin on its own: create_plugin, then _apply_payload, initialize   *)
(* and map_data in any order, on payloads and snapshots of every shape the *)
(* code distinguishes.  call keeps the last call, the plugin before it and *)
(* what it returned.                                                       *)
(***************************************************************************)
PA == Payload(JInt(18), 500, VER)
PB == JObj(JInt(22), Ch(<<"S", "2">>), Ch(<<"v", "2">>), JList(<<>>),
           JList(<<JInt(0), JInt(0), Ch(<<"I", "2">>), Ch(<<"h", "2">>), Ch(<<"f", "2">>)>>))
PC == JObj(Ch(<<"2", "2">>), None, None, JList(<<JInt(7)>>),
           JList(<<JInt(0), JInt(0), Ch(<<>>)>>))
PluginPayloads == {PA, PB, PC, EmptyRealtime}

\* A payload whose registers 3 and 72 both hold raw.
Wide(raw) ==
    JObj(JInt(18), Ch(<<"S", "N">>), VER,
         JList([i \in 1..73 |-> IF i \in {4, 73} THEN raw ELSE JInt(10 * i)]), INFO_A)

RawSamples ==
    {JInt(0), JInt(1), JInt(32767), JInt(32768), JInt(32769), JInt(65535),
     Ch(<<"4", "0", "0", "0", "0">>), Ch(<<"a", "b">>), JList(<<>>),
     Special("inf"), Special("nan")}

\* What map_data and initialize may be handed: snapshots of the coordinator,
\* bare payloads, a bare register list, nothing.
Snapshots ==
    {BuildSnapshot(w, JList(<<>>)) : w \in {Wide(r) : r \in RawSamples} \cup PluginPayloads}
    \cup {PA, PB, JList(<<JInt(3605), JInt(25)>>), None}

\* Descriptors with no index and with an index past every container.
no_index == [ac_power EXCEPT !.index = None]
far_index == [ac_power EXCEPT !.index = JInt(500)]
Descriptors ==
    {ac_power, pv1_voltage, pv1_power, grid_power, no_index, far_index, NotADescr}

\* create_plugin(...), called directly.
Construct(registration, payload, info_serial, device_serial, firmware) ==
    /\ plugin = None
    /\ plugin' = CreatePlugin(registration, FALSE, payload, info_serial,
                              device_serial, firmware)
    /\ call' = Called("create", NotADescr, payload, None, plugin',
                      [kind |-> "args", info_serial |-> info_serial,
                       device_serial |-> device_serial, firmware |-> firmware])
    /\ UNCHANGED <<pc, http, loc, log, elapsed, data, ptrace, gate>>

\* plugin._apply_payload(payload)
ApplyCall(payload) ==
    /\ Ready
    /\ plugin' = ApplyPayload(plugin, payload)
    /\ call' = Called("apply", NotADescr, payload, plugin, plugin', None)
    /\ UNCHANGED <<pc, http, loc, log, elapsed, data, ptrace, gate>>

\* plugin.initialize(d)
InitializeCall(d) ==
    /\ Ready
    /\ plugin' = Initialize(plugin, d)
    /\ call' = Called("initialize", NotADescr, d, plugin, plugin', None)
    /\ UNCHANGED <<pc, http, loc, log, elapsed, data, ptrace, gate>>

\* plugin.map_data(descr, d)
DecodeCall(descr, d) ==
    /\ Ready
    /\ plugin' = MapDataPlugin(plugin, descr, d)
    /\ call' = Called("decode", descr, d, plugin, plugin',
                      MapDataValue(plugin, descr, d))
    /\ UNCHANGED <<pc, http, loc, log, elapsed, data, ptrace, gate>>

\* The arguments create_plugin is given: registration, payload, info_serial,
\* device_serial, firmware.
IS == Ch(<<"I", "S">>)
DS == Ch(<<"D", "S">>)
F9 == Ch(<<"f", "9">>)
Constructions ==
    {<<REGISTRATION, None, None, None, None>>,
     <<REGISTRATION, PA, IS, DS, F9>>,
     <<REGISTRATION, PA, IS, None, F9>>,
     <<REGISTRATION, PC, None, DS, None>>,
     <<Ch(<<>>), None, None, DS, None>>,
     <<Ch(<<>>), None, None, None, None>>}

\* Identity: few register values, every shape of identity fields.
IdSnapshots ==
    {BuildSnapshot(w, JList(<<>>)) : w \in {PA, PB, EmptyRealtime}}
    \cup {PB, PC, JList(<<JInt(3605), JInt(25)>>), None}

NextPlugin ==
    \/ \E c \in Constructions : Construct(c[1], c[2], c[3], c[4], c[5])
    \/ \E payload \in PluginPayloads : ApplyCall(payload)
    \/ \E d \in IdSnapshots : InitializeCall(d)
    \/ \E descr \in {ac_power, NotADescr}, d \in IdSnapshots : DecodeCall(descr, d)

SpecPlugin == Init /\ [][NextPlugin]_vars

\* Decoding: one plugin as the factory makes it, every descriptor on every
\* snapshot.
NextDecode ==
    \/ Construct(REGISTRATION, PA, IS, None, F9)
    \/ \E descr \in Descriptors, d \in Snapshots : DecodeCall(descr, d)

SpecDecode == Init /\ [][NextDecode]_vars

(***************************************************************************)
(* Derived values: the PV-power descriptors on payloads whose registers 0  *)
(* (voltage) and 1 (current) take every shape the conversions distinguish. *)
(***************************************************************************)
\* A payload with the two registers, and one that ends before the second.
Pv(v, c) == JObj(JInt(18), Ch(<<"S", "N">>), VER, JList(<<v, c>>), INFO_A)
PvShort(v) == JObj(JInt(18), Ch(<<"S", "N">>), VER, JList(<<v>>), INFO_A)

PrimarySamples == {JInt(3605), JInt(0), Ch(<<"a", "b">>), Huge}
SecondarySamples ==
    {JInt(25), Ch(<<"2", "5">>), Ch(<<"a", "b">>), None, JList(<<>>), Huge,
     Special("inf")}

DeriveSnapshots ==
    {BuildSnapshot(w, JList(<<>>)) :
        w \in {Pv(v, c) : v \in PrimarySamples, c \in SecondarySamples}
              \cup {PvShort(JInt(3605))}}
    \cup {JList(<<JInt(3605)>>), JList(<<JInt(3605), JInt(25)>>)}

\* pv1_power as the plugin defines it, the same kept to two decimals, and
\* the same with the sign inverted.
pv1_power_exact == [pv1_power EXCEPT !.precision = JInt(2)]
pv1_export == [pv1_power EXCEPT !.invert_sign = TRUE, !.precision = JInt(2)]
DeriveDescrs == {pv1_power, pv1_power_exact, pv1_export}

NextDerive ==
    \/ Construct(REGISTRATION, None, None, None, None)
    \/ \E descr \in DeriveDescrs, d \in DeriveSnapshots : DecodeCall(descr, d)

SpecDerive == Init /\ [][NextDerive]_vars

(***************************************************************************)
(* _determine_type on its own: every serial of up to MaxSerial characters,  *)
(* drawn position by position from the characters the function tests and   *)
(* some it does not.                                                       *)
(***************************************************************************)
SerialChars ==
    <<{"C", "5", "0"}, {"0", "1", "3"}, {"0", "1", "2", "3"},
      {"0", "1", "2", "3", "7"}, {"0", "1", "7", "B", "M", "Z"}, {"X"}>>

\* The characters drawn at position i (from 1): X past the tested ones.
CharsAt(i) == IF i <= Len(SerialChars) THEN SerialChars[i] ELSE {"X"}

\* The serials of length n.
RECURSIVE SerialsOf(_)
SerialsOf(n) ==
    IF n = 0 THEN {<<>>}
    ELSE {Append(s, c) : s \in SerialsOf(n - 1), c \in CharsAt(n)}

Serials == {None} \cup {Ch(s) : s \in UNION {SerialsOf(n) : n \in 0..MaxSerial}}

\* PluginFactory._determine_type(sn), called directly.  The function keeps
\* no state, so one call is followed from the initial state.
DetermineCall(sn) ==
    /\ call = NoCall
    /\ call' = Called("determine", NotADescr, sn, None, None, DetermineType(sn))
    /\ UNCHANGED <<pc, http, loc, log, elapsed, data, plugin, ptrace, gate>>

NextSerial == \E sn \in Serials : DetermineCall(sn)

SpecSerial == Init /\ [][NextSerial]_vars

(***************************************************************************)
(* Detection on its own: get_plugin_instance on payloads that combine      *)
(* every kind of serial with every kind of type field.                     *)
(***************************************************************************)
\* Information[2]: absent, empty, of no charger, C-prefixed without and with
\* a version flag, generation 2, and a number.
ProbeSerials ==
    {None, Ch(<<>>), Ch(<<"Z", "Z">>), Ch(<<"C">>), Ch(<<"C", "1", "0", "7">>),
     Ch(<<"C", "1", "0", "7", "Z">>), Ch(<<"C", "1", "0", "7", "0">>),
     Ch(<<"C", "3", "2", "2", "1">>), Ch(<<"5", "0">>),
     Ch(<<"5", "0", "2", "3", "M">>), JInt(5023)}

\* The type field: missing, of the table, outside it, as text, and values
\* int() has trouble with.
ProbeTypes ==
    {None, JInt(18), JInt(22), JInt(99), Ch(<<"1", "8">>), Ch(<<"a", "b">>),
     JList(<<>>), Huge, Special("inf"), Special("nan")}

ProbePayload(serial, type) ==
    JObj(type, Ch(<<"S", "N">>), VER, JList(<<JInt(3605), JInt(25)>>),
         IF serial = None THEN JList(<<JInt(0), JInt(0)>>)
         ELSE JList(<<JInt(0), JInt(0), serial, Ch(<<"h", "1">>), Ch(<<"f", "1">>)>>))

\* What the device may answer to the detection read: the payloads, a list,
\* a number, and text that is no JSON.
ProbeTexts ==
    {JsonText(ProbePayload(serial, type)) : serial \in ProbeSerials, type \in ProbeTypes}
    \cup {JsonText(JList(<<JInt(1), JInt(2)>>)), JsonText(JInt(5)),
          RawText(<<"o", "o", "p", "s">>)}

\* One attempt of the detection read ends with outcome o.
DetectAttempt(o) ==
    /\ http["detect"].state = "pending"
    /\ http' = [http EXCEPT !["detect"] = HttpStep(http["detect"], o)]
    /\ UNCHANGED <<pc, loc, log, elapsed, data, plugin, ptrace, gate, call>>

NextDetect ==
    \/ DetectStart
    \/ \E o \in Outcomes(ProbeTexts) :
          /\ o.kind \in {"response", "timeout"} /\ o.status \in {0, 200, 404}
          /\ DetectAttempt(o)
    \/ \E device_serial \in {None, DS} : DetectDone(device_serial, FALSE)

SpecDetect == Init /\ [][NextDetect]_vars

(***************************************************************************)
(* The life of the plugin under a coordinator: made by the factory or by   *)
(* create_plugin without a payload, then refreshed on schedule, with       *)
(* get_data called by the host at any time between the steps of a refresh. *)
(***************************************************************************)
\* The coordinator is given a plugin that create_plugin built with no
\* payload: nothing of the device is known yet.
BareSetup(supports) ==
    /\ plugin = None
    /\ pc["detect"] = "idle" /\ loc["detect"].status = "idle"
    /\ plugin' = CreatePlugin(REGISTRATION, supports, None, None, None, None)
    /\ UNCHANGED <<pc, http, loc, log, elapsed, data, ptrace, gate, call>>

\* get_data(descr): synchronous, on the snapshot the coordinator holds.
GetData(descr) ==
    /\ Ready
    /\ plugin' = MapDataPlugin(plugin, descr, data)
    /\ call' = Called("get", descr, data, plugin, plugin',
                      MapDataValue(plugin, descr, data))
    /\ UNCHANGED <<pc, http, loc, log, elapsed, data, ptrace, gate>>

LifeTexts ==
    {JsonText(Payload(JInt(18), 500, VER)), JsonText(Payload(JInt(18), 700, VER)),
     RawText(<<"o", "o", "p", "s">>)}

NextLifecycle ==
    \/ DetectStart
    \/ DetectDone(None, FALSE)
    \/ BareSetup(FALSE)
    \/ \E t \in Tasks : \E o \in Outcomes(LifeTexts) :
          /\ o.kind \in {"response", "timeout"} /\ o.status \in {0, 200}
          /\ HttpAttempt(t, o)
    \/ UpdateStart
    \/ \E t \in Tasks : GetDataRealtime(t)
    \/ \E descr \in {ac_power, NotADescr} : GetData(descr)

SpecLifecycle == Init /\ [][NextLifecycle]_vars

(***************************************************************************)
(* Polling: after a detection that read registers 3605, 25, 0, 700, cycles *)
(* whose reads give all registers, fewer registers, no Data at all, or     *)
(* fail, with get_data between them.                                       *)
(***************************************************************************)
PollFull == Payload(JInt(18), 500, VER)
PollShort == JObj(JInt(18), Ch(<<"S", "N">>), VER, JList(<<JInt(3000)>>), INFO_A)
PollNoData == JObj(JInt(18), Ch(<<"S", "N">>), VER, None, INFO_A)

PollTexts ==
    {JsonText(PollFull), JsonText(PollShort), JsonText(PollNoData),
     RawText(<<"o", "o", "p", "s">>), JsonText(JInt(5))}

\* One attempt of the realtime read of a refresh ends with outcome o.
PollAttempt(o) ==
    /\ http["update"].state = "pending"
    /\ http' = [http EXCEPT !["update"] = HttpStep(http["update"], o)]
    /\ UNCHANGED <<pc, loc, log, elapsed, data, plugin, ptrace, gate, call>>

PollDescrs == {ac_power, pv1_voltage, pv1_power}

NextPoll ==
    \/ DetectStart
    \/ HttpAttempt("detect", [kind |-> "response", status |-> 200,
                              body |-> JsonText(Payload(JInt(18), 700, VER))])
    \/ DetectDone(None, FALSE)
    \/ UpdateStart
    \/ \E o \in Outcomes(PollTexts) :
          /\ o.kind = "response" /\ o.status \in {200, 404}
          /\ PollAttempt(o)
    \/ GetDataRealtime("update")
    \/ \E descr \in PollDescrs : GetData(descr)

SpecPoll == Init /\ [][NextPoll]_vars

(***************************************************************************)
(* Properties.                                                             *)
(***************************************************************************)
AllTransportErrors(tr) == \A i \in 1..Len(tr) : tr[i].kind \in TransportErrors

\* C1: a POST with retry budget n whose attempts all fail with transport-level
\* errors (of any of the four classes, in any mix) makes exactly n + 1
\* attempts and then returns None; it never makes more.
C1_RetryBound ==
    LET h == http["post"]
    IN  AllTransportErrors(ptrace) =>
          /\ Len(ptrace) <= h.budget + 1
          /\ h.state = "pending" => (Len(ptrace) < h.budget + 1
                                     /\ h.attempts = Len(ptrace) + 1)
          /\ h.state = "returned" => (/\ Len(ptrace) = h.budget + 1
                                      /\ h.attempts = h.budget + 1
                                      /\ h.result = None)

\* C1 witness: retry=3, four failures of the four different classes, returned.
C1_Witness ==
    /\ http["post"].state = "returned"
    /\ http["post"].budget = DefaultRetry
    /\ Len(ptrace) = DefaultRetry + 1
    /\ {ptrace[i].kind : i \in 1..Len(ptrace)} = TransportErrors

\* C2: an attempt answered with status 200 ends the POST with the body text;
\* an attempt answered with any other status ends it with None at once: it is
\* the last attempt, whatever budget remains.
C2_StatusDecides ==
    \A i \in 1..Len(ptrace) :
        ptrace[i].kind = "response" =>
          /\ i = Len(ptrace)
          /\ http["post"].state = "returned"
          /\ http["post"].attempts = i
          /\ http["post"].result = IF ptrace[i].status = 200 THEN ptrace[i].body
                                   ELSE None

\* C2 witness: a first attempt answered 404 with the whole budget of 3 left.
C2_Witness ==
    /\ Len(ptrace) = 1 /\ ptrace[1].kind = "response" /\ ptrace[1].status = 404
    /\ http["post"].state = "returned" /\ http["post"].retry = DefaultRetry

\* C3: the POST never raises: whatever its attempts end with it returns a body
\* text or None, and an error outside the four retried classes ends it with
\* None without another attempt.
C3_NeverRaises ==
    /\ \A t \in Tasks : http[t].state # "raised"
    /\ http["post"].state = "returned" =>
          (http["post"].result = None \/ http["post"].result \in WriteTexts)
    /\ \A i \in 1..Len(ptrace) :
          ptrace[i].kind = "unexpected" =>
            /\ i = Len(ptrace)
            /\ http["post"].state = "returned"
            /\ http["post"].result = None

\* C3 witness: an unexpected error after a retried one, budget left.
C3_Witness ==
    /\ Len(ptrace) = 2 /\ ptrace[1].kind = "timeout" /\ ptrace[2].kind = "unexpected"
    /\ http["post"].state = "returned" /\ http["post"].retry > 0

\* C4: a non-forced write_register whose freshly refreshed decoded value
\* equals the requested value returns without any setReg POST.
C4_WriteSkip ==
    LET l == loc["write"]
    IN  (l.compared /\ l.current = l.value) =>
          /\ l.status = "returned" /\ pc["write"] = "idle"
          /\ ~l.posted
          /\ \A i \in 1..Len(log["write"]) : log["write"][i] # Post("setReg")

\* C4 witness: the refreshed register reads 500 and 500 was asked for.
C4_Witness ==
    /\ loc["write"].compared /\ loc["write"].current = Num(50000)
    /\ loc["write"].value = Num(50000) /\ loc["write"].status = "returned"

IsPrefix(a, b) == Len(a) <= Len(b) /\ SubSeq(b, 1, Len(a)) = a

\* The POSTs of one __async_get_data.
FetchCalls ==
    IF plugin.supports_set_data
    THEN <<Post("ReadRealTimeData"), Post("ReadSetData")>>
    ELSE <<Post("ReadRealTimeData")>>

ExpectedWriteLog(always) ==
    IF always THEN <<Post("setReg")>>
    ELSE FetchCalls \o <<Post("setReg")>> \o FetchCalls \o <<Publish>>

\* C5: a mapped write_register makes its calls in the order refresh reads,
\* one setReg POST, refresh reads, publication when it is not forced and the
\* refreshed value differs from the request (also when the setReg POST
\* returned None), and exactly the one setReg POST when it is forced.
C5_WriteOrder ==
    LET l == loc["write"]
    IN  (l.status # "idle" /\ l.payload # None) =>
          /\ IsPrefix(log["write"], ExpectedWriteLog(l.always))
          /\ (l.status = "returned" /\ ~(l.compared /\ l.current = l.value)) =>
                log["write"] = ExpectedWriteLog(l.always)
          /\ l.posted => \E i \in 1..Len(log["write"]) : log["write"][i] = Post("setReg")

\* C5 witness: a non-forced write whose setReg POST returned None went on to
\* the second refresh and the publication.
C5_Witness ==
    /\ loc["write"].status = "returned" /\ ~loc["write"].always
    /\ loc["write"].posted /\ loc["write"].resp = None
    /\ plugin.supports_set_data
    /\ log["write"] = ExpectedWriteLog(FALSE)

\* C6: a write_register whose descriptor has no mapping returns at once,
\* forced or not: no POST of any kind, the snapshot as it was.
C6_NoMappingNoOp ==
    LET l == loc["write"]
    IN  (l.status # "idle" /\ l.payload = None) =>
          /\ l.status = "returned" /\ pc["write"] = "idle"
          /\ log["write"] = <<>>
          /\ http["write"] = IdleCall
          /\ data = l.before

\* C6 witness: a forced write without mapping, with a snapshot in place.
C6_Witness ==
    /\ loc["write"].status = "returned" /\ loc["write"].payload = None
    /\ loc["write"].always /\ data # None

\* setData as `... or []` leaves it.
SetDataOf(l) == IF Truthy(l.setRead) THEN l.setRead ELSE JList(<<>>)

C8_OnlyUpdateFailedEscapes ==
    loc["update"].status = "raised" => loc["update"].error = "UpdateFailed"

FailedRead(text, parsed) == (text # None /\ ContainsFailed(text)) => parsed = None

\* C9: a text that contains "failed" gives no data in the realtime read, the
\* set-data read and the detection-time read, well-formed JSON or not.
C9_FailedSentinel ==
    \A t \in {"detect", "update", "write"} :
        /\ FailedRead(loc[t].rtText, loc[t].realtime)
        /\ FailedRead(loc[t].setText, loc[t].setRead)
        /\ (t = "detect" /\ loc[t].rtText # None /\ ContainsFailed(loc[t].rtText))
              => (plugin = None /\ loc[t].status = "raised")

\* C9 witness: a refresh read well-formed JSON with Data and Information and
\* "failed" in its version string, and a set-data list holding "failed".
C9_Witness ==
    /\ loc["update"].rtText = JsonText(Payload(JInt(18), 500, VER_FAILED))
    /\ loc["update"].realtime = None
    /\ loc["update"].setText = JsonText(JList(<<Ch(FAILED)>>))
    /\ loc["update"].setRead = None
    /\ loc["update"].status = "returned"

Fetching(t) == pc[t] \in {"rt", "set"}

\* C10, as claimed: no fetch of the coordinator, those of write_register
\* included, waits longer than the deadline.
C10_EveryFetchBounded ==
    \A t \in {"update", "write"} : Fetching(t) => elapsed[t] <= Deadline

\* C10, amended: the fetch of a refresh (_async_update_data) never waits
\* longer than the deadline; at the deadline the refresh ends raising
\* TimeoutError, and a refresh never makes more than the POSTs of one fetch.
C10_UpdateFetchBounded ==
    /\ Fetching("update") => elapsed["update"] <= Deadline
    /\ Len(log["update"]) <= 2
    /\ (loc["update"].status = "raised" /\ loc["update"].error = "TimeoutError") =>
          /\ pc["update"] = "idle" /\ http["update"] = IdleCall
          /\ elapsed["update"] = Deadline

\* C10 witness: a refresh ended by the deadline.
C10_Witness ==
    /\ loc["update"].status = "raised" /\ loc["update"].error = "TimeoutError"
    /\ elapsed["update"] = Deadline

\* C11, as claimed: at most one fetch of the device is in flight at any time,
\* however scheduled refreshes and write_register calls interleave.
C11_OneFetchInFlight ==
    Cardinality({t \in {"update", "write"} : Fetching(t)}) <= 1

\* C12, as claimed: within one cooldown window of the debounce gate at most
\* one refresh of the device runs, however many write_register calls and
\* refresh requests arrive in it.
C12_OneRefreshPerWindow == gate.runs <= 1

\* DeviceIdentity: the fields of the plugin that identify the device.
IdentityFields ==
    {"serialnumber", "device_serial", "info_serial", "sw_version", "hw_version",
     "runtime_type", "model_name", "invertertype"}

Identity(p) == [f \in IdentityFields |-> p[f]]

\* C13, as claimed: whatever calls are made on the plugin, an identity field
\* that has been set (to something other than None or the empty string)
\* keeps the value it was first set to.
C13_FirstNonNullWins ==
    [][Ready => \A f \in IdentityFields :
                  IsSet(plugin[f]) => plugin'[f] = plugin[f]]_vars

\* C14: _apply_payload is idempotent: right after a payload was applied,
\* applying the same payload again changes neither an identity field nor the
\* cached payload, whatever the plugin was before.
C14_ApplyIdempotent ==
    (Ready /\ call.op = "apply") => ApplyPayload(plugin, call.arg) = plugin

\* C14 witness: a payload applied to a plugin that had seen none set its
\* runtime type, serials, versions and model name.
C14_Witness ==
    /\ Ready /\ call.op = "apply" /\ call.arg = PA
    /\ call.before.last_payload = None /\ call.before.runtime_type = None
    /\ plugin.runtime_type = JInt(18) /\ plugin.model_name = BOOST
    /\ plugin.sw_version = VER /\ plugin.last_payload = PA

\* C15, as claimed: when the serial number of a plugin is first set and a
\* device serial is known then, the serial number is that device serial: in
\* create_plugin given a device_serial, and in the call on the plugin that
\* first sets it.
C15_DeviceSerialFirst ==
    Ready =>
      /\ (call.op = "create" /\ Truthy(call.value.device_serial)) =>
            plugin.serialnumber = call.value.device_serial
      /\ (/\ call.op \in {"apply", "initialize", "decode"}
          /\ ~Truthy(call.before.serialnumber)
          /\ Truthy(plugin.serialnumber) /\ Truthy(plugin.device_serial)) =>
            plugin.serialnumber = plugin.device_serial

\* A refresh returns in this step.
RefreshReturns ==
    /\ pc["update"] # "idle" /\ pc'["update"] = "idle"
    /\ loc'["update"].status = "returned"

\* C16: once the plugin is identified (its invertertype is set) it stays so
\* through every refresh, failed read and decode; a refresh calls initialize
\* exactly when the plugin is not yet identified, and the plugin is
\* identified once initialize has run: initialize never runs again.
C16_IdentifiedForGood ==
    [][Ready =>
         /\ plugin.invertertype # None => plugin'.invertertype # None
         /\ RefreshReturns =>
               /\ loc'["update"].initialized <=> plugin.invertertype = None
               /\ loc'["update"].initialized => plugin'.invertertype # None]_vars

\* C16 witness: a plugin built without a payload is identified, and a later
\* refresh whose read failed returned without calling initialize.
C16_Witness ==
    /\ Ready /\ plugin.initial_payload = None /\ plugin.invertertype # None
    /\ loc["update"].status = "returned" /\ loc["update"].rtFailed
    /\ ~loc["update"].initialized

\* C17, as claimed: a map_data call on a plugin that has already seen a
\* payload leaves every identity field as it was.  (That map_data does not
\* change the snapshot it is given holds of the code, which only reads it.)
C17_DecodeLeavesIdentity ==
    (call.op = "decode" /\ call.before.last_payload # None) =>
        Identity(call.after) = Identity(call.before)

\* C18, as claimed: a get_data call of the host writes no identity field and
\* not the cached payload.
C18_GetWritesNothing ==
    call.op = "get" =>
        /\ Identity(call.after) = Identity(call.before)
        /\ call.after.last_payload = call.before.last_payload

\* The raw register a decode call read from the snapshot it was given.
HasRawRegister(c) ==
    /\ c.op = "decode" /\ c.descr.isDescr /\ c.descr.index # None
    /\ c.arg.kind = "snap"
    /\ Len(c.arg.RawRealtimeData.Data.v) > c.descr.index.v

RawRegister(c) == c.arg.RawRealtimeData.Data.v[c.descr.index.v + 1]

\* C19: decoding a raw integer r of 0..65535 with the S16 descriptor
\* grid_power (factor 1) gives r - 65536 for r >= 32768 and r below that;
\* with ac_power, which is not S16, it gives r whatever r is.
C19_Signed16 ==
    (/\ HasRawRegister(call) /\ call.descr \in {grid_power, ac_power}
     /\ RawRegister(call).kind = "int" /\ RawRegister(call).v \in 0..65535) =>
        call.value = Num(100 * (IF call.descr = grid_power /\ RawRegister(call).v >= 32768
                                THEN RawRegister(call).v - 65536
                                ELSE RawRegister(call).v))

\* C19 witness: raw 32768 decoded as -32768.
C19_Witness ==
    /\ HasRawRegister(call) /\ call.descr = grid_power
    /\ RawRegister(call) = JInt(32768) /\ call.value = Num(0 - 3276800)

\* C20, as claimed: map_data never raises, whatever descriptor and snapshot
\* it is given: it returns a value or None.
C20_DecodeTotal == call.op = "decode" => call.value.kind # "raise"

\* A decode call with a descriptor that has a derive function, on a snapshot
\* whose primary register holds an integer.
DerivedCall(c) ==
    /\ HasRawRegister(c) /\ c.descr.vf # None /\ RawRegister(c).kind = "int"

\* The secondary register of the snapshot, None when it has none.
SecondaryRaw(c) ==
    IF Len(c.arg.RawRealtimeData.Data.v) > c.descr.vf.index.v
    THEN c.arg.RawRealtimeData.Data.v[c.descr.vf.index.v + 1]
    ELSE None

\* Raw values that are no number: null, a list, a word, and the integer
\* that float() cannot hold.
NotConvertible(x) ==
    x = None \/ x.kind \in {"list", "huge"} \/ x = Ch(<<"a", "b">>)

\* C21, as claimed: decoding with a derive function gives the product
\* (primaryRaw x factor) x (secondaryRaw x currentFactor), then the sign,
\* then the rounding to the descriptor's precision; and it gives None
\* (unavailable) when the secondary register is absent or holds a value
\* that cannot be converted to a number.
C21_DeriveOrder ==
    DerivedCall(call) =>
      /\ SecondaryRaw(call).kind = "int" =>
            call.value =
              Num(RoundTo((IF call.descr.invert_sign THEN 0 - 1 ELSE 1)
                          * (RawRegister(call).v * call.descr.factor10)
                          * (SecondaryRaw(call).v * call.descr.vf.factor10),
                          call.descr.precision.v))
      /\ NotConvertible(SecondaryRaw(call)) => call.value = None

\* Character c stands at position i (from 0) of s.
Has(s, i, c) == Len(s) > i /\ s[i + 1] = c

\* C22: _determine_type gives the bitmask of the tables.  A serial starting
\* with C has the version flag of position 4 (0: V1.0, 1: V1.1), the phase
\* flag of position 1 (1: X1, 3: X3) and the power class of characters 2-3
\* (07, 11, 22), and never the generation-2 flag; one starting with 50 has
\* the generation-2 flag, the phase of position 2 (3: X3, 2: X1) and the
\* power class of position 4 (B: 11, M: 22, 7: 7), and no generation-1 flag;
\* each flag is set only in these cases; any other serial, the empty one and
\* a missing one give no match.
C22_SerialBitmask ==
    call.op = "determine" =>
      IF call.arg = None THEN call.value = None
      ELSE IF Has(call.arg.v, 0, "C")
      THEN /\ call.value.kind = "flags"
           /\ \A f \in {"V10", "V11", "V20", "X1", "X3", "POW7", "POW11", "POW22"} :
                f \in call.value.v <=>
                  CASE f = "V10" -> Has(call.arg.v, 4, "0")
                    [] f = "V11" -> Has(call.arg.v, 4, "1")
                    [] f = "V20" -> FALSE
                    [] f = "X1" -> Has(call.arg.v, 1, "1")
                    [] f = "X3" -> Has(call.arg.v, 1, "3")
                    [] f = "POW7" -> Has(call.arg.v, 2, "0") /\ Has(call.arg.v, 3, "7")
                    [] f = "POW11" -> Has(call.arg.v, 2, "1") /\ Has(call.arg.v, 3, "1")
                    [] f = "POW22" -> Has(call.arg.v, 2, "2") /\ Has(call.arg.v, 3, "2")
      ELSE IF Has(call.arg.v, 0, "5") /\ Has(call.arg.v, 1, "0")
      THEN /\ call.value.kind = "flags"
           /\ \A f \in {"V10", "V11", "V20", "X1", "X3", "POW7", "POW11", "POW22"} :
                f \in call.value.v <=>
                  CASE f \in {"V10", "V11"} -> FALSE
                    [] f = "V20" -> TRUE
                    [] f = "X1" -> Has(call.arg.v, 2, "2")
                    [] f = "X3" -> Has(call.arg.v, 2, "3")
                    [] f = "POW7" -> Has(call.arg.v, 4, "7")
                    [] f = "POW11" -> Has(call.arg.v, 4, "B")
                    [] f = "POW22" -> Has(call.arg.v, 4, "M")
      ELSE call.value = None

\* C22 witness: the serial 5023MX is generation 2, single phase (position 2
\* is 2), 22 kW.  (C1070X, generation 1, single phase, 7 kW, is reached too.)
C22_Witness ==
    /\ call.op = "determine" /\ call.arg = Ch(<<"5", "0", "2", "3", "M", "X">>)
    /\ call.value = Flags({"V20", "X1", "POW22"})

\* The serial of a payload as detection reads it: Information[2], None when
\* the payload is no object or has no such entry.
SerialOf(payload) ==
    IF payload.kind = "obj" /\ Len(payload.Information.v) > 2
    THEN payload.Information.v[3] ELSE None

\* The serial (as text, or the number 5023) is one of a charger: C with 0 or
\* 1 at position 4, or 50.
Gen1Serial(x) == x.kind = "str" /\ Has(x.v, 0, "C") /\ (Has(x.v, 4, "0") \/ Has(x.v, 4, "1"))
Gen2Serial(x) == x = JInt(5023) \/ (x.kind = "str" /\ Has(x.v, 0, "5") /\ Has(x.v, 1, "0"))

\* The raw type field of a payload, None when it has none.
TypeOf(payload) == IF payload.kind = "obj" THEN payload.type ELSE None

\* The type field is a code of the static inverter table.
TypeInTable(x) == x \in {JInt(18), JInt(22), Ch(<<"1", "8">>), Ch(<<"2", "2">>)}

\* C23, as claimed: detection of a payload raises exactly when the serial is
\* of no charger and the type field is missing, no number or not in the
\* inverter table, and the error then carries the serial and the raw type
\* field; otherwise a plugin is returned.
C23_DetectionError ==
    (call.op = "detect" /\ call.arg # None) =>
      IF Gen1Serial(SerialOf(call.arg)) \/ Gen2Serial(SerialOf(call.arg))
         \/ TypeInTable(TypeOf(call.arg))
      THEN call.value.kind \in {"charger", "plugin"}
      ELSE /\ call.value.kind = "raise"
           /\ "serial" \in DOMAIN call.value
           /\ call.value.serial = (IF SerialOf(call.arg) = JInt(5023)
                                   THEN Ch(<<"5", "0", "2", "3">>)
                                   ELSE SerialOf(call.arg))
           /\ call.value.runtime_type = TypeOf(call.arg)

\* C24: the serial path comes first.  A payload whose serial has the V1.0 or
\* V1.1 flag gives the generation-1 charger and one whose serial starts with
\* 50 the generation-2 charger, whatever its type field is; a plugin of the
\* inverter table is made only for a serial of no charger, a C-prefixed
\* serial without version flag included, and then exactly for a type of the
\* table.
C24_SerialPathFirst ==
    (call.op = "detect" /\ call.arg # None /\ call.arg.kind = "obj") =>
      /\ Gen1Serial(SerialOf(call.arg)) =>
            call.value.kind = "charger" /\ call.value.name = "solax_ev_charger"
      /\ Gen2Serial(SerialOf(call.arg)) =>
            call.value.kind = "charger" /\ call.value.name = "solax_ev_charger_g2"
      /\ call.value.kind = "plugin" <=>
            /\ ~Gen1Serial(SerialOf(call.arg)) /\ ~Gen2Serial(SerialOf(call.arg))
            /\ TypeInTable(TypeOf(call.arg))

\* C24 witness: the serial C107Z, C-prefixed without a version flag, with
\* type 18 gave the inverter plugin.  (C1070 with type 18 gives the charger.)
C24_Witness ==
    /\ call.op = "detect" /\ call.arg.kind = "obj"
    /\ SerialOf(call.arg) = Ch(<<"C", "1", "0", "7", "Z">>)
    /\ TypeOf(call.arg) = JInt(18)
    /\ call.value.kind = "plugin" /\ call.value.runtime_type = JInt(18)

\* Register i of the payload a snapshot was built from, None when the
\* payload has no such register.
RegisterOf(snap, i) ==
    IF snap.RawRealtimeData.Data # None /\ Len(snap.RawRealtimeData.Data.v) > i
    THEN snap.RawRealtimeData.Data.v[i + 1] ELSE None

\* What a descriptor decodes to, from the registers of one snapshot alone:
\* ac_power is register 3, pv1_voltage a tenth of register 0, pv1_power the
\* product of a tenth of register 0 and a tenth of register 1, rounded.
FromLatest(descr, snap) ==
    CASE descr = ac_power ->
           IF RegisterOf(snap, 3) = None THEN None
           ELSE Num(100 * RegisterOf(snap, 3).v)
      [] descr = pv1_voltage ->
           IF RegisterOf(snap, 0) = None THEN None
           ELSE Num(10 * RegisterOf(snap, 0).v)
      [] descr = pv1_power ->
           IF RegisterOf(snap, 0) = None \/ RegisterOf(snap, 1) = None THEN None
           ELSE Num(RoundTo(RegisterOf(snap, 0).v * RegisterOf(snap, 1).v, 0))

\* C25: once a cycle has stored a snapshot, what get_data returns for a
\* descriptor is given by the registers of the current snapshot alone,
\* whatever earlier cycles and the detection read: a register the latest
\* payload lacks decodes to None, and so does every descriptor after a cycle
\* whose realtime read failed.
C25_LatestCycleOnly ==
    (call.op = "get" /\ call.arg # None) =>
        call.value = FromLatest(call.descr, call.arg)

\* C25 witness: after a cycle that read register 3 as 500 and then a cycle
\* whose read failed, get_data(ac_power) gave None, the plugin having cached
\* the payload with 500 before.
C25_Witness ==
    /\ call.op = "get" /\ call.descr = ac_power /\ call.arg # None
    /\ call.arg.RawRealtimeData = EmptyRealtime
    /\ call.before.last_payload = PollFull
    /\ call.value = None

\* C26, as claimed: in every state of a plugin the model name it reports is
\* the one of its runtime type: X1 Boost G4 for 18, X1 Mini G4 for 22, the
\* generic name otherwise.
C26_ModelNameAgrees ==
    Ready => InverterModel(plugin) = ModelNameOf(plugin.runtime_type)

====
